---- MODULE Spec2Model ----
(***************************************************************************)
(* getcou-rs: a downloader for segmented video streams (src/main.rs).      *)
(*                                                                         *)
(* One run of `run()`: create the output file, create a scratch directory, *)
(* fetch the main playlist (with retry), follow it to a secondary playlist *)
(* when it lists no segments, download the segments through a              *)
(* FuturesUnordered with at most 10 futures in it, and concatenate the     *)
(* scratch files, sorted by name, into the output file.                    *)
(*                                                                         *)
(* Text is modelled at the granularity the code inspects it: a playlist is *)
(* a sequence of lines, a line is [scheme, id, ext]: what it starts with,  *)
(* a number that tells lines apart, and the extension it contains ("" for  *)
(* none).  Bytes are small naturals.  A file name is the sequence of       *)
(* decimal digits `{:05}` produces.                                        *)
(*                                                                         *)
(* Library semantics the model relies on:                                  *)
(*  - a future pushed into FuturesUnordered runs only while the owner      *)
(*    awaits `futures.next()`; a future that finishes is yielded by that   *)
(*    same poll;                                                           *)
(*  - dropping FuturesUnordered (the `return Err(e)` paths) drops every    *)
(*    future still in it: the download stops at its current await;         *)
(*  - TempDir removes the directory and its content when it is dropped;    *)
(*    locals are dropped in reverse order of declaration, so `futures`     *)
(*    goes before `temp_dir`.                                              *)
(***************************************************************************)
EXTENDS Integers, Sequences, FiniteSets, TLC

(***************************************************************************)
(* Bounds of the model.                                                    *)
(***************************************************************************)
\* longest playlist made of arbitrary lines the server may return
MaxLines == 2
\* longest playlist made only of segment lines the server may return
MaxSegs == 11

(***************************************************************************)
(* Program constants.                                                      *)
(***************************************************************************)
\* `while futures.len() >= 10`
ConcurrencyLimit == 10
\* download_with_retry(url, 3)
PlaylistRetries == 3
\* download_segment(.., 12)
SegmentRetries == 12
\* Duration::from_millis(100)
SleepMillis == 100
\* "Retry {}/{} in {}s...": the computed delay is a number of seconds
MillisPerSecond == 1000
\* format!("{:05}.ts", i)
NameWidth == 5

(***************************************************************************)
(* Text: lines and tokens.                                                 *)
(***************************************************************************)
\* line.starts_with("http")
StartsWithHttp(line) == line.scheme = "http"

\* line.contains(".ts") || line.contains(".bin")
ContainsSegmentMarker(line) == line.ext = ".ts" \/ line.ext = ".bin"

\* the closure of contains_direct_segments
IsDirectSegmentLine(line) == StartsWithHttp(line) /\ ContainsSegmentMarker(line)

\* content.lines().any(..)
contains_direct_segments(content) ==
    \E k \in 1..Len(content) : IsDirectSegmentLine(content[k])

\* as HttpLines, but keeping only the lines contains_direct_segments looks for
RECURSIVE HttpLines_direct(_)
HttpLines_direct(content) ==
    IF content = <<>> THEN <<>>
    ELSE IF IsDirectSegmentLine(Head(content))
         THEN <<Head(content)>> \o HttpLines_direct(Tail(content))
         ELSE HttpLines_direct(Tail(content))

\* .lines().filter(|line| line.starts_with("http")).collect()
RECURSIVE HttpLines(_)
HttpLines(content) ==
    IF content = <<>> THEN <<>>
    ELSE IF StartsWithHttp(Head(content))
         THEN <<Head(content)>> \o HttpLines(Tail(content))
         ELSE HttpLines(Tail(content))

\* as LastHttpIndex, but without the .rev(): the first such line
LastHttpIndex_first(content) ==
    LET hits == {k \in 1..Len(content) : StartsWithHttp(content[k])}
    IN IF hits = {} THEN 0 ELSE CHOOSE k \in hits : \A m \in hits : k <= m

\* .lines().rev().find(|line| line.starts_with("http")): the index of the last
\* such line, 0 when there is none
LastHttpIndex(content) ==
    LET hits == {k \in 1..Len(content) : StartsWithHttp(content[k])}
    IN IF hits = {} THEN 0 ELSE CHOOSE k \in hits : \A m \in hits : m <= k

(***************************************************************************)
(* File names of the scratch directory and their order.                    *)
(***************************************************************************)
\* the decimal digits of n, most significant first
RECURSIVE Digits(_)
Digits(n) == IF n < 10 THEN <<n>> ELSE Digits(n \div 10) \o <<n % 10>>

\* left padding with zeros up to width w; longer numbers are not cut
RECURSIVE ZeroPad(_, _)
ZeroPad(ds, w) == IF Len(ds) >= w THEN ds ELSE ZeroPad(<<0>> \o ds, w)

\* as SegmentPath, but with one name for every index: the file holds the
\* blob that arrived last
SegmentPath_shared(i) == [stem |-> ZeroPad(<<0>>, NameWidth), ext |-> "ts"]

\* as SegmentPath, but formatting with "{}.ts": no padding
SegmentPath_unpadded(i) == [stem |-> Digits(i), ext |-> "ts"]

\* temp_dir.path().join(format!("{:05}.ts", i))
SegmentPath(i) == [stem |-> ZeroPad(Digits(i), NameWidth), ext |-> "ts"]

\* the order of Vec<PathBuf>::sort() on two names of one directory with the
\* same extension: byte-wise on the stem, a proper prefix first
LexLess(a, b) ==
    \E k \in 1..(Len(b)) :
        /\ \A m \in 1..(k - 1) : m <= Len(a) /\ a[m] = b[m]
        /\ \/ k > Len(a)
           \/ k <= Len(a) /\ a[k] < b[k]

\* entries.sort()
RECURSIVE SortPaths(_)
SortPaths(paths) ==
    IF paths = {} THEN <<>>
    ELSE LET first == CHOOSE p \in paths :
                          \A q \in paths \ {p} : LexLess(p.stem, q.stem)
         IN <<first>> \o SortPaths(paths \ {first})

\* for entry in entries { io::copy(segment_file, output_file) }
RECURSIVE CopyAll(_, _)
CopyAll(entries, dir) ==
    IF entries = <<>> THEN <<>>
    ELSE dir[Head(entries)] \o CopyAll(Tail(entries), dir)

\* read_dir(temp_dir) filtered to the paths whose extension is "ts"
TsEntries(dir) == {p \in DOMAIN dir : p.ext = "ts"}

\* the bytes concatenate_files leaves in the output file
Concatenated(dir) == CopyAll(SortPaths(TsEntries(dir)), dir)

\* as AttemptsRemain, but giving up one attempt early
AttemptsRemain_short(attempt, max_retries) == attempt + 1 < max_retries

\* `if attempt < max_retries`: the loop has another attempt to make
AttemptsRemain(attempt, max_retries) == attempt < max_retries

\* as LastError, but keeping the first error of the loop
LastError_first(last_error, e) == IF last_error.kind = "none" THEN e ELSE last_error

\* `last_error = Some(..)`: the error of this attempt replaces the one kept
LastError(last_error, e) == e

\* 2u64.pow(attempt as u32); attempt < max_retries <= 12, far from the u64 range
RECURSIVE Pow2(_)
Pow2(n) == IF n = 0 THEN 1 ELSE 2 * Pow2(n - 1)

(***************************************************************************)
(* The environment: what the transport and the file system may answer.     *)
(***************************************************************************)
\* args[1]
RootUrl == [scheme |-> "http", id |-> 0, ext |-> ".m3u8"]

\* the two ways one attempt fails and is retried: Ok(resp) with a non-success
\* status, or Err(e) from send()
ErrorKinds == {"status", "transport"}

\* lines a served playlist is made of: two segment lines, two URL lines
\* without a segment marker, and a tag that mentions a segment marker
SmallLines ==
    { [scheme |-> "http", id |-> 20, ext |-> ".ts"],
      [scheme |-> "http", id |-> 21, ext |-> ".bin"],
      [scheme |-> "http", id |-> 22, ext |-> ""],
      [scheme |-> "http", id |-> 23, ext |-> ""],
      [scheme |-> "#EXT", id |-> 24, ext |-> ".ts"] }

SmallManifests == UNION {[1..n -> SmallLines] : n \in 0..MaxLines}

LongManifests ==
    {[k \in 1..n |-> [scheme |-> "http", id |-> k - 1, ext |-> ".ts"]] :
        n \in 1..MaxSegs}

\* lines of a playlist found through another one; the code only asks them
\* for the URL scheme: a segment line, a URL line without a segment marker
\* and a tag
SecondaryLines ==
    {line \in SmallLines : line.id \in {20, 22, 24}}

SecondaryManifests == UNION {[1..n -> SecondaryLines] : n \in 0..MaxLines}

\* the texts a playlist URL may serve: anything at the URL of the command
\* line, a short playlist at a URL found in a playlist
Manifests(url) ==
    IF url = RootUrl THEN SmallManifests \cup LongManifests
    ELSE SecondaryManifests

\* stable server responses: a run made again is served, at each playlist URL,
\* the text the first run was served (history is the record of the first run)
Stable(url, history) ==
    IF url = RootUrl THEN {history.main} ELSE {history.secondary}

\* the segment URLs whose host may fail an attempt; the other hosts always
\* answer with a success status
FlakyHosts == {0}

\* the bytes a segment URL serves: blobs of different lengths and contents
Body(url) == IF url.id % 2 = 0 THEN <<url.id>> ELSE <<url.id, url.id>>

(***************************************************************************)
(* State.                                                                  *)
(***************************************************************************)
VARIABLES
    pc,                 \* where run() is
    result,             \* "running", or what run() returned
    output_file,        \* the file at args[2]
    temp_dir,           \* "none", "live" or "removed"
    scratch,            \* the files of temp_dir: path -> bytes
    dl,                 \* the frame of download_with_retry
    main_playlist,
    secondary_content,
    segment_urls,
    next_i,             \* the `i` of the for loop: segments pushed so far
    futures,            \* the indices whose future is in FuturesUnordered
    task,               \* the frame of download_segment of every index
    completed_segments,
    reordered,          \* history: some download finished before one pushed
                        \* earlier
    run_no,             \* history: 1 in a first run, 2 in a run made again
    first_run           \* history: what the first run was served and left

\* the history of a run made again
hist == <<run_no, first_run>>

vars == <<pc, result, output_file, temp_dir, scratch, dl, main_playlist,
          secondary_content, segment_urls, next_i, futures, task,
          completed_segments, reordered, run_no, first_run>>

total_segments == Len(segment_urls)

NoScratch == [p \in {} |-> <<>>]

\* no URL: the frame is not in use
NoUrl == [scheme |-> "", id |-> 0, ext |-> ""]

\* `let mut last_error = None`
NoError == [kind |-> "none", attempt |-> 0]

IdleFrame == [phase |-> "idle", url |-> NoUrl, attempt |-> 0,
              last_error |-> NoError, delay |-> 0, sleep_ms |-> 0]

\* the frame of a retry loop entering its first attempt
StartFrame(url) == [phase |-> "send", url |-> url, attempt |-> 0,
                    last_error |-> NoError, delay |-> 0, sleep_ms |-> 0]

\* anyhow::Error: a message (the outermost context) over a cause
Error(origin, msg, cause) ==
    [state |-> "err", origin |-> origin, msg |-> msg, cause |-> cause]

\* run() has not returned
Running == [state |-> "running", origin |-> "", msg |-> "", cause |-> NoError]

\* Ok(())
Success == [state |-> "ok", origin |-> "", msg |-> "", cause |-> NoError]

\* a file of the given bytes
File(bytes) == [exists |-> TRUE, bytes |-> bytes]

\* no file at that path
Absent == [exists |-> FALSE, bytes |-> <<>>]

\* no run was made before this one
NoRun == [main |-> <<>>, secondary |-> <<>>, output |-> Absent]

Init ==
    /\ pc = "start"
    /\ result = Running
    /\ output_file \in {Absent, File(<<>>), File(<<9, 9>>)}
    /\ temp_dir = "none"
    /\ scratch = NoScratch
    /\ dl = IdleFrame
    /\ main_playlist = <<>>
    /\ secondary_content = <<>>
    /\ segment_urls = <<>>
    /\ next_i = 0
    /\ futures = {}
    /\ task = <<>>
    /\ completed_segments = 0
    /\ reordered = FALSE
    /\ run_no = 1
    /\ first_run = NoRun

(***************************************************************************)
(* run(): set-up and the playlists.                                        *)
(***************************************************************************)
\* as Fail, but with the scratch directory left behind
Fail_leak(e) ==
    /\ result' = e
    /\ pc' = "exit"
    /\ UNCHANGED <<temp_dir, scratch>>

\* a `?` or `return Err` of run() while no download exists: the locals are
\* dropped, temp_dir with them, and main() exits with status 1
Fail(e) ==
    /\ result' = e
    /\ pc' = "exit"
    /\ temp_dir' = IF temp_dir = "live" THEN "removed" ELSE temp_dir
    /\ scratch' = NoScratch

\* as Touch, but without the call of File::create
Touch_skip ==
    /\ pc = "start"
    /\ pc' = "tempdir"
    /\ UNCHANGED <<result, output_file, temp_dir, scratch, dl, main_playlist,
                   secondary_content, segment_urls, next_i, futures, task,
                   completed_segments, reordered>>
    /\ UNCHANGED hist

\* as Touch, but opening the file without truncating it
Touch_keep ==
    /\ pc = "start"
    /\ output_file' = IF output_file.exists THEN output_file ELSE File(<<>>)
    /\ pc' = "tempdir"
    /\ UNCHANGED <<result, temp_dir, scratch, dl, main_playlist,
                   secondary_content, segment_urls, next_i, futures, task,
                   completed_segments, reordered>>
    /\ UNCHANGED hist

\* touch(output_file)?: File::create makes the file or truncates it
Touch ==
    /\ pc = "start"
    /\ output_file' = File(<<>>)
    /\ pc' = "tempdir"
    /\ UNCHANGED <<result, temp_dir, scratch, dl, main_playlist,
                   secondary_content, segment_urls, next_i, futures, task,
                   completed_segments, reordered>>
    /\ UNCHANGED hist

\* touch(output_file)? when File::create fails
TouchFail ==
    /\ pc = "start"
    /\ Fail(Error("setup", "File::create", [kind |-> "io", attempt |-> 0]))
    /\ UNCHANGED <<output_file, dl, main_playlist, secondary_content,
                   segment_urls, next_i, futures, task,
                   completed_segments, reordered>>
    /\ UNCHANGED hist

\* tempdir_in(".")?, then the call of download_with_retry(url, 3)
MakeTempDir ==
    /\ pc = "tempdir"
    /\ temp_dir' = "live"
    /\ scratch' = NoScratch
    /\ dl' = StartFrame(RootUrl)
    /\ pc' = "main"
    /\ UNCHANGED <<result, output_file, main_playlist, secondary_content,
                   segment_urls, next_i, futures, task,
                   completed_segments, reordered>>
    /\ UNCHANGED hist

\* tempdir_in(".")? when the directory cannot be made
MakeTempDirFail ==
    /\ pc = "tempdir"
    /\ Fail(Error("setup", "tempdir_in", [kind |-> "io", attempt |-> 0]))
    /\ UNCHANGED <<output_file, dl, main_playlist, secondary_content,
                   segment_urls, next_i, futures, task,
                   completed_segments, reordered>>
    /\ UNCHANGED hist

\* the texts send() may answer with at a playlist URL: any in a first run,
\* the same again in a run made again
Served(url) == IF run_no = 1 THEN Manifests(url) ELSE Stable(url, first_run)

\* the .context(..) run() puts on a playlist download that failed
PlaylistContext ==
    IF pc = "main" THEN "Failed to download main playlist"
    ELSE "Failed to download secondary playlist"

\* download_with_retry: an attempt answered with a success status whose text
\* is read; the playlist goes to the caller
PlaylistOk(text) ==
    /\ pc \in {"main", "secondary"}
    /\ dl.phase = "send"
    /\ dl' = IdleFrame
    /\ IF pc = "main"
       THEN /\ main_playlist' = text
            /\ pc' = "classify"
            /\ UNCHANGED secondary_content
       ELSE /\ secondary_content' = text
            /\ pc' = "extract"
            /\ UNCHANGED main_playlist
    /\ UNCHANGED <<result, output_file, temp_dir, scratch, segment_urls,
                   next_i, futures, task, completed_segments, reordered>>
    /\ UNCHANGED hist

\* download_with_retry: a success status, but resp.text() fails: the error is
\* returned at once
PlaylistBodyFail ==
    /\ pc \in {"main", "secondary"}
    /\ dl.phase = "send"
    /\ dl' = IdleFrame
    /\ Fail(Error("resolver", PlaylistContext,
                  [kind |-> "Failed to read response body",
                   attempt |-> dl.attempt]))
    /\ UNCHANGED <<output_file, main_playlist, secondary_content,
                   segment_urls, next_i, futures, task,
                   completed_segments, reordered>>
    /\ UNCHANGED hist

\* download_with_retry: an attempt fails; either sleep before the next one or,
\* after attempt max_retries, return the last error
PlaylistAttemptFail(kind) ==
    /\ pc \in {"main", "secondary"}
    /\ dl.phase = "send"
    /\ LET e == LastError(dl.last_error,
                          [kind |-> kind, attempt |-> dl.attempt])
       IN IF AttemptsRemain(dl.attempt, PlaylistRetries)
          THEN /\ dl' = [dl EXCEPT !.last_error = e,
                                   !.phase = "sleep",
                                   !.delay = Pow2(dl.attempt),
                                   !.sleep_ms = SleepMillis]
               /\ UNCHANGED <<pc, result, temp_dir, scratch>>
          ELSE /\ dl' = IdleFrame
               /\ Fail(Error("resolver", PlaylistContext, e))
    /\ UNCHANGED <<output_file, main_playlist, secondary_content,
                   segment_urls, next_i, futures, task,
                   completed_segments, reordered>>
    /\ UNCHANGED hist

\* download_with_retry: the sleep is over, the loop takes the next attempt
PlaylistWake ==
    /\ pc \in {"main", "secondary"}
    /\ dl.phase = "sleep"
    /\ dl' = [dl EXCEPT !.phase = "send", !.attempt = dl.attempt + 1,
                        !.delay = 0, !.sleep_ms = 0]
    /\ UNCHANGED <<pc, result, output_file, temp_dir, scratch, main_playlist,
                   secondary_content, segment_urls, next_i, futures, task,
                   completed_segments, reordered>>
    /\ UNCHANGED hist

\* `let secondary_content = if contains_direct_segments(..) {..} else {..}`
Classify ==
    /\ pc = "classify"
    /\ IF contains_direct_segments(main_playlist)
       THEN /\ secondary_content' = main_playlist
            /\ pc' = "extract"
            /\ UNCHANGED <<result, temp_dir, scratch, dl>>
       ELSE IF LastHttpIndex(main_playlist) = 0
            THEN /\ Fail(Error("resolver",
                               "No valid playlist URL found in main playlist",
                               NoError))
                 /\ UNCHANGED <<secondary_content, dl>>
            ELSE /\ dl' = StartFrame(main_playlist[LastHttpIndex(main_playlist)])
                 /\ pc' = "secondary"
                 /\ UNCHANGED <<result, temp_dir, scratch, secondary_content>>
    /\ UNCHANGED <<output_file, main_playlist, segment_urls, next_i, futures,
                   task, completed_segments, reordered>>
    /\ UNCHANGED hist

\* the frame of a download that was not pushed yet
PendingFrame == [phase |-> "pending", url |-> NoUrl, attempt |-> 0,
                 last_error |-> NoError, delay |-> 0, sleep_ms |-> 0]

\* as IsEmpty, but never true
IsEmpty_never(urls) == FALSE

\* segment_urls.is_empty()
IsEmpty(urls) == Len(urls) = 0

\* `let segment_urls = ..collect()` and the is_empty() check
Extract ==
    /\ pc = "extract"
    /\ segment_urls' = HttpLines(secondary_content)
    /\ IF IsEmpty(HttpLines(secondary_content))
       THEN /\ Fail(Error("resolver", "No video segments found in playlist",
                          NoError))
            /\ UNCHANGED <<task, next_i>>
       ELSE /\ task' = [i \in 0..(Len(HttpLines(secondary_content)) - 1)
                           |-> PendingFrame]
            /\ next_i' = 0
            /\ pc' = "loop"
            /\ UNCHANGED <<result, temp_dir, scratch>>
    /\ UNCHANGED <<output_file, dl, main_playlist, secondary_content, futures,
                   completed_segments, reordered>>
    /\ UNCHANGED hist

(***************************************************************************)
(* run(): the download loop.                                               *)
(***************************************************************************)
\* where the for loop goes once fewer than 10 futures are left in the set
AfterDrain(n) == IF n < total_segments THEN "loop" ELSE "final"

\* as AtLimit, but with `>` for `>=`
AtLimit_above(n) == n > ConcurrencyLimit

\* `while futures.len() >= 10`
AtLimit(n) == n >= ConcurrencyLimit

\* one iteration of `for (i, url) in segment_urls.iter().enumerate()` up to its
\* `while futures.len() >= 10`: the future of segment i is pushed
Submit ==
    /\ pc = "loop"
    /\ next_i < total_segments
    /\ task' = [task EXCEPT ![next_i] = StartFrame(segment_urls[next_i + 1])]
    /\ futures' = futures \cup {next_i}
    /\ next_i' = next_i + 1
    /\ pc' = IF AtLimit(Cardinality(futures \cup {next_i}))
             THEN "drain"
             ELSE AfterDrain(next_i + 1)
    /\ UNCHANGED <<result, output_file, temp_dir, scratch, dl, main_playlist,
                   secondary_content, segment_urls, completed_segments, reordered>>
    /\ UNCHANGED hist

\* as Polled, but with the futures polled only by the loop that keeps the
\* concurrency limit, not by the loop that waits for the remaining ones
Polled_drainonly(i) == pc = "drain" /\ i \in futures

\* as YieldOk, but without `completed_segments += 1`
YieldOk_nocount(i) ==
    /\ reordered' = (reordered \/ \E j \in futures : j < i)
    /\ futures' = futures \ {i}
    /\ pc' = IF pc = "drain"
             THEN IF AtLimit(Cardinality(futures \ {i}))
                  THEN "drain"
                  ELSE AfterDrain(next_i)
             ELSE "final"
    /\ UNCHANGED <<result, temp_dir, completed_segments>>

\* `futures.next().await` is being awaited: the futures in the set are polled
Polled(i) == pc \in {"drain", "final"} /\ i \in futures

\* the Ok(_) arm of either loop: the future of segment i is out of the set
YieldOk(i) ==
    /\ completed_segments' = completed_segments + 1
    /\ reordered' = (reordered \/ \E j \in futures : j < i)
    /\ futures' = futures \ {i}
    /\ pc' = IF pc = "drain"
             THEN IF AtLimit(Cardinality(futures \ {i}))
                  THEN "drain"
                  ELSE AfterDrain(next_i)
             ELSE "final"
    /\ UNCHANGED <<result, temp_dir>>

\* as DropFrames, but with the other downloads left running, as tasks spawned
\* on the runtime would be
DropFrames_leak(i) == [task EXCEPT ![i] = [PendingFrame EXCEPT !.phase = "err"]]

\* the frames after segment i returned Err and `futures` was dropped: the
\* futures are gone, with their locals
DropFrames(i) ==
    [j \in DOMAIN task |->
        IF j = i THEN [PendingFrame EXCEPT !.phase = "err"]
        ELSE IF j \in futures THEN [PendingFrame EXCEPT !.phase = "dropped"]
        ELSE [PendingFrame EXCEPT !.phase = task[j].phase]]

\* the Err(e) arm of either loop: `return Err(e)` drops `futures`, and every
\* download still in it stops at its await; then temp_dir is dropped and
\* main() exits with status 1
YieldErr(i, e) ==
    /\ result' = Error("scheduler", e.kind, e)
    /\ task' = DropFrames(i)
    /\ futures' = {}
    /\ temp_dir' = "removed"
    /\ scratch' = NoScratch
    /\ pc' = "exit"
    /\ UNCHANGED <<completed_segments, reordered>>

\* the transport may fail the attempt of segment i
MayFail(i) == task[i].url.id \in FlakyHosts

(***************************************************************************)
(* download_segment.                                                       *)
(***************************************************************************)
\* as Written, but with the write lost
Written_lost(dir, path, bytes) == dir

\* the directory after write(path, bytes)
Written(dir, path, bytes) ==
    [p \in DOMAIN dir \cup {path} |-> IF p = path THEN bytes ELSE dir[p]]

\* an attempt answered with a success status: the bytes are read and written
\* to the segment's path, and `return Ok(())` is what futures.next() yields
SegmentOk(i) ==
    /\ Polled(i)
    /\ task[i].phase = "send"
    /\ scratch' = Written(scratch, SegmentPath(i), Body(task[i].url))
    /\ task' = [task EXCEPT ![i].phase = "ok", ![i].last_error = NoError]
    /\ YieldOk(i)
    /\ UNCHANGED <<output_file, dl, main_playlist, secondary_content,
                   segment_urls, next_i>>
    /\ UNCHANGED hist

\* as SegmentIoFail, but with the error kept as the error of a failed
\* attempt, which the loop retries
SegmentIoFail_retry(i, what) ==
    /\ Polled(i)
    /\ task[i].phase = "send"
    /\ LET e == [kind |-> what, attempt |-> task[i].attempt]
       IN IF AttemptsRemain(task[i].attempt, SegmentRetries)
          THEN /\ task' = [task EXCEPT ![i].last_error = e,
                                       ![i].phase = "sleep",
                                       ![i].delay = Pow2(task[i].attempt),
                                       ![i].sleep_ms = SleepMillis]
               /\ UNCHANGED <<pc, result, temp_dir, scratch, futures,
                              completed_segments, reordered>>
          ELSE YieldErr(i, e)
    /\ UNCHANGED <<output_file, dl, main_playlist, secondary_content,
                   segment_urls, next_i>>
    /\ UNCHANGED hist

\* a success status, but resp.bytes() or tokio::fs::write fails: `?` returns
\* the error at once
SegmentIoFail(i, what) ==
    /\ Polled(i)
    /\ task[i].phase = "send"
    /\ YieldErr(i, [kind |-> what, attempt |-> task[i].attempt])
    /\ UNCHANGED <<output_file, dl, main_playlist, secondary_content,
                   segment_urls, next_i>>
    /\ UNCHANGED hist

\* an attempt fails; either sleep before the next one or, after attempt
\* max_retries, return the last error
SegmentAttemptFail(i, kind) ==
    /\ Polled(i)
    /\ task[i].phase = "send"
    /\ MayFail(i)
    /\ LET e == LastError(task[i].last_error,
                          [kind |-> kind, attempt |-> task[i].attempt])
       IN IF AttemptsRemain(task[i].attempt, SegmentRetries)
          THEN /\ task' = [task EXCEPT ![i].last_error = e,
                                       ![i].phase = "sleep",
                                       ![i].delay = Pow2(task[i].attempt),
                                       ![i].sleep_ms = SleepMillis]
               /\ UNCHANGED <<pc, result, temp_dir, scratch, futures,
                              completed_segments, reordered>>
          ELSE YieldErr(i, e)
    /\ UNCHANGED <<output_file, dl, main_playlist, secondary_content,
                   segment_urls, next_i>>
    /\ UNCHANGED hist

\* the sleep is over, the loop takes the next attempt
SegmentWake(i) ==
    /\ Polled(i)
    /\ task[i].phase = "sleep"
    /\ task' = [task EXCEPT ![i].phase = "send",
                            ![i].attempt = task[i].attempt + 1,
                            ![i].delay = 0, ![i].sleep_ms = 0]
    /\ UNCHANGED <<pc, result, output_file, temp_dir, scratch, dl,
                   main_playlist, secondary_content, segment_urls, next_i,
                   futures, completed_segments, reordered>>
    /\ UNCHANGED hist

\* the two `?` of the success arm
IoFailures == {"Failed to read response bytes", "Failed to write file"}

(***************************************************************************)
(* run(): the end.                                                         *)
(***************************************************************************)
\* `while let Some(result) = futures.next().await` gets None
FinalDrained ==
    /\ pc = "final"
    /\ futures = {}
    /\ pc' = "assemble"
    /\ UNCHANGED <<result, output_file, temp_dir, scratch, dl, main_playlist,
                   secondary_content, segment_urls, next_i, futures, task,
                   completed_segments, reordered>>
    /\ UNCHANGED hist

\* concatenate_files(temp_dir.path(), output_file)?, then Ok(()): temp_dir is
\* dropped on the way out
Concatenate ==
    /\ pc = "assemble"
    /\ output_file' = File(Concatenated(scratch))
    /\ result' = Success
    /\ temp_dir' = "removed"
    /\ scratch' = NoScratch
    /\ pc' = "exit"
    /\ UNCHANGED <<dl, main_playlist, secondary_content, segment_urls, next_i,
                   futures, task, completed_segments, reordered>>
    /\ UNCHANGED hist

\* the bytes of the first k entries, copied before entry k + 1 failed
CopiedBefore(k, dir) == CopyAll(SubSeq(SortPaths(TsEntries(dir)), 1, k), dir)

\* concatenate_files(..)? fails: File::create or read_dir (k = 0), or
\* File::open / io::copy on the entry after the first k, which were copied;
\* `?` returns the error, temp_dir is dropped on the way out
ConcatenateFail(k) ==
    /\ pc = "assemble"
    /\ k = 0 \/ k < Cardinality(TsEntries(scratch))
    /\ output_file' = File(CopiedBefore(k, scratch))
    /\ Fail(Error("assembler", "io", [kind |-> "io", attempt |-> k]))
    /\ UNCHANGED <<dl, main_playlist, secondary_content, segment_urls, next_i,
                   futures, task, completed_segments, reordered>>
    /\ UNCHANGED hist

\* the program is run again, with the same arguments, after a run that
\* succeeded: a new process, the output file as the first run left it
Rerun ==
    /\ pc = "exit"
    /\ result = Success
    /\ run_no = 1
    /\ run_no' = 2
    /\ first_run' = [main |-> main_playlist, secondary |-> secondary_content,
                     output |-> output_file]
    /\ pc' = "start"
    /\ result' = Running
    /\ temp_dir' = "none"
    /\ scratch' = NoScratch
    /\ dl' = IdleFrame
    /\ main_playlist' = <<>>
    /\ secondary_content' = <<>>
    /\ segment_urls' = <<>>
    /\ next_i' = 0
    /\ futures' = {}
    /\ task' = <<>>
    /\ completed_segments' = 0
    /\ reordered' = FALSE
    /\ UNCHANGED output_file

Next ==
    \/ Touch
    \/ TouchFail
    \/ MakeTempDir
    \/ MakeTempDirFail
    \/ \E text \in Served(dl.url) : PlaylistOk(text)
    \/ PlaylistBodyFail
    \/ \E kind \in ErrorKinds : PlaylistAttemptFail(kind)
    \/ PlaylistWake
    \/ Classify
    \/ Extract
    \/ Submit
    \/ \E i \in DOMAIN task : SegmentOk(i)
    \/ \E i \in DOMAIN task, what \in IoFailures : SegmentIoFail(i, what)
    \/ \E i \in DOMAIN task, kind \in ErrorKinds : SegmentAttemptFail(i, kind)
    \/ \E i \in DOMAIN task : SegmentWake(i)
    \/ FinalDrained
    \/ Concatenate
    \/ \E k \in 0..total_segments : ConcatenateFail(k)

Spec == Init /\ [][Next]_vars

\* every fetch attempt and every sleep returns, and run() is polled to its
\* end by the runtime: a step that can be taken is taken
FairSpec == Init /\ [][Next]_vars /\ WF_vars(Next)

\* two runs, one after the other
TwiceNext == Next \/ Rerun

TwiceSpec == Init /\ [][TwiceNext]_vars

(***************************************************************************)
(* concatenate_files on its own: called on a directory that holds the      *)
(* files of any part of the indices of a work list.                        *)
(***************************************************************************)
\* the URL of segment i in a playlist made only of segment lines
SegmentUrl(i) == [scheme |-> "http", id |-> i, ext |-> ".ts"]

\* the directory that holds the blobs of the indices in S, each at the path
\* run() gives its index
DirOf(S) ==
    [p \in {SegmentPath(i) : i \in S} |->
        Body(SegmentUrl(CHOOSE i \in S : SegmentPath(i) = p))]

\* run() at its call of concatenate_files, after a work list of n segments,
\* with the scratch directory holding dir
AtAssembly(n, dir) ==
    /\ pc = "assemble"
    /\ result = Running
    /\ output_file = File(<<>>)
    /\ temp_dir = "live"
    /\ scratch = dir
    /\ dl = IdleFrame
    /\ main_playlist = [k \in 1..n |-> SegmentUrl(k - 1)]
    /\ secondary_content = main_playlist
    /\ segment_urls = main_playlist
    /\ next_i = n
    /\ futures = {}
    /\ task = [i \in 0..(n - 1) |-> [PendingFrame EXCEPT !.phase = "ok"]]
    /\ completed_segments = n
    /\ reordered = FALSE
    /\ run_no = 1
    /\ first_run = NoRun

\* any work list of up to MaxSegs segments, any part of its blobs on disk
AsmInit ==
    \E n \in 1..MaxSegs : \E S \in SUBSET (0..(n - 1)) : AtAssembly(n, DirOf(S))

AsmNext ==
    \/ Concatenate
    \/ \E k \in 0..total_segments : ConcatenateFail(k)

AsmSpec == AsmInit /\ [][AsmNext]_vars

\* indices on both sides of the widths of the decimal numbers, up to the
\* first ones that do not fit in NameWidth digits
WideIndices == {0, 9, 10, 99, 9999, 10000, 10001, 99999, 100000, 100001}

\* the blobs of any sample of the indices of a work list too long to write
\* down; concatenate_files does not read the work list
SortInit ==
    \E S \in SUBSET WideIndices : AtAssembly(0, DirOf(S))

SortNext ==
    \/ Concatenate
    \/ \E k \in 0..Cardinality(WideIndices) : ConcatenateFail(k)

SortSpec == SortInit /\ [][SortNext]_vars

(***************************************************************************)
(* Properties.                                                             *)
(***************************************************************************)
\* the downloads that were pushed and have not returned
InFlight == {i \in DOMAIN task : task[i].phase \in {"send", "sleep"}}

\* run() returned the error of a segment download
SchedulerFailed == result.state = "err" /\ result.origin = "scheduler"

\* run() returned an error of the playlist resolution
ResolverFailed == result.state = "err" /\ result.origin = "resolver"

\* the blobs of the work list, one after the other by index
RECURSIVE BlobsInOrder(_)
BlobsInOrder(urls) ==
    IF urls = <<>> THEN <<>> ELSE Body(Head(urls)) \o BlobsInOrder(Tail(urls))

\* the sum of the lengths of the blobs of the work list
RECURSIVE BlobsLength(_)
BlobsLength(urls) ==
    IF urls = <<>> THEN 0 ELSE Len(Body(Head(urls))) + BlobsLength(Tail(urls))

C2_AtMostTenInFlight ==
    /\ [](Cardinality(InFlight) <= ConcurrencyLimit)
    /\ [][next_i' > next_i => Cardinality(InFlight) < ConcurrencyLimit]_vars

\* ten downloads are in flight, the loop awaits one, segments are left to push
C2_Witness ==
    /\ pc = "drain"
    /\ Cardinality(InFlight) = ConcurrencyLimit
    /\ next_i < total_segments

\* C3 (as claimed): when run() returns the error of a download, every download
\* that was pushed has finished, with Ok or with Err: none was left mid-way.
C3_InFlightFinishBeforeError ==
    SchedulerFailed =>
        \A i \in DOMAIN task :
            i < next_i => task[i].phase \in {"ok", "err"}

\* C4: a download is a success however many of its first attempts failed, as
\* long as one of the max_retries + 1 succeeds; the error of a failed attempt
\* reaches the scheduler only from attempt max_retries, the last; with it
\* run() fails, and nothing is pushed after that.
C4_RetryAccounting ==
    /\ [](SchedulerFailed /\ result.cause.kind \in ErrorKinds
            => result.cause.attempt = SegmentRetries)
    /\ [][\A i \in DOMAIN task :
            /\ i \in DOMAIN task'
            /\ task[i].phase = "send"
            /\ task'[i].phase = "ok"
            => /\ task[i].attempt <= SegmentRetries
               /\ result' = Running
               /\ completed_segments' = completed_segments + 1]_vars
    /\ [][\A i \in DOMAIN task :
            /\ i \in DOMAIN task'
            /\ task[i].phase = "send"
            /\ task[i].attempt = SegmentRetries
            /\ task'[i].phase \notin {"send", "ok"}
            => result'.state = "err"]_vars
    /\ [][result.state = "err" => next_i' = next_i /\ futures' = futures]_vars

\* a download failed its 13 attempts while segments were left to push
C4_Witness ==
    /\ SchedulerFailed
    /\ result.cause.kind \in ErrorKinds
    /\ result.cause.attempt = SegmentRetries
    /\ next_i < total_segments

\* C5: a run that failed in the playlists or in the downloads is over, never
\* reached concatenate_files and leaves the output file as touch() made it:
\* empty; concatenate_files is called only while no error was returned.
C5_FailedRunLeavesEmptyOutput ==
    /\ (ResolverFailed \/ SchedulerFailed) =>
            /\ pc = "exit"
            /\ output_file = File(<<>>)
    /\ pc = "assemble" => result = Running

\* a run failed after some segments had been written to the scratch directory
C5_Witness ==
    /\ SchedulerFailed
    /\ completed_segments > 0
    /\ output_file = File(<<>>)

\* the positions of the lines that start with the URL scheme marker
HttpPositions(content) ==
    {k \in 1..Len(content) : content[k].scheme = "http"}

\* the positions of the direct-segment lines
DirectPositions(content) ==
    {k \in HttpPositions(content) : content[k].ext \in {".ts", ".bin"}}

\* urls is made of the lines of content at the positions pos, in file order
SelectsInOrder(urls, content, pos) ==
    /\ Len(urls) = Cardinality(pos)
    /\ \A k \in pos : urls[Cardinality({m \in pos : m <= k})] = content[k]

\* the work list was made (and is not empty)
Resolved == segment_urls # <<>>

\* every download that was pushed fetches the line of its index
IndexedFromZero ==
    /\ DOMAIN task = 0..(total_segments - 1)
    /\ \A i \in InFlight : task[i].url = segment_urls[i + 1]

LastOf(pos) == CHOOSE k \in pos : \A m \in pos : m <= k

\* run() failed on the secondary playlist
SecondaryFailed ==
    /\ result.state = "err"
    /\ result.msg = "Failed to download secondary playlist"

\* what C7 says of the secondary fetch: it is made only for a root playlist
\* without a direct-segment line, from its last URL line; when it fails, run()
\* fails with the error of that fetch and no download was pushed
C7_SecondaryFetch ==
    /\ [](pc = "secondary" =>
            /\ DirectPositions(main_playlist) = {}
            /\ HttpPositions(main_playlist) # {}
            /\ dl.url = main_playlist[LastOf(HttpPositions(main_playlist))])
    /\ [](SecondaryFailed =>
            /\ DOMAIN task = {}
            /\ next_i = 0
            /\ completed_segments = 0
            /\ scratch = NoScratch)
    /\ [][pc = "secondary" /\ result'.state = "err" =>
            /\ SecondaryFailed'
            /\ result'.cause.attempt = dl.attempt
            /\ result'.cause.kind \in ErrorKinds
                 => /\ dl.attempt = PlaylistRetries
                    /\ dl.phase = "send"]_vars

\* C7 (as claimed): the work list got through a secondary playlist is the
\* direct-segment lines of that playlist, in file order.
C7_SecondaryGivesDirectLines ==
    Resolved /\ DirectPositions(main_playlist) = {} =>
        SelectsInOrder(segment_urls, secondary_content,
                       DirectPositions(secondary_content))

\* C7 (amended): a root playlist without a direct-segment line but with a URL
\* line has its last URL line fetched as the secondary playlist, and only
\* such a playlist has; the work list is every line of the secondary playlist
\* that starts with the URL scheme marker, in file order; a secondary fetch
\* that fails makes run() fail with that error, with no download pushed.
C7_SecondaryGivesHttpLines ==
    /\ [](Resolved /\ DirectPositions(main_playlist) = {} =>
            /\ SelectsInOrder(segment_urls, secondary_content,
                              HttpPositions(secondary_content))
            /\ IndexedFromZero)
    /\ C7_SecondaryFetch

\* the work list got through the last of two URL lines, from a secondary
\* playlist that has a URL line without a segment marker
C7_Witness ==
    /\ pc = "loop"
    /\ DirectPositions(main_playlist) = {}
    /\ Cardinality(HttpPositions(main_playlist)) = 2
    /\ main_playlist[1] # main_playlist[2]
    /\ DirectPositions(secondary_content) # HttpPositions(secondary_content)
    /\ Len(segment_urls) = 2

\* C8: run() fails with "No valid playlist URL" exactly on a root playlist
\* that needs a secondary one and has no URL line, and with "No video
\* segments" on an empty work list; either way no download was pushed,
\* nothing was written and concatenate_files was not called; the download
\* loop is entered only with a work list that is not empty.
C8_ResolutionFailsBeforeDownloads ==
    /\ result.msg = "No valid playlist URL found in main playlist" =>
            HttpPositions(main_playlist) = {}
    /\ result.msg = "No video segments found in playlist" =>
            /\ HttpPositions(secondary_content) = {}
            /\ segment_urls = <<>>
    /\ ResolverFailed =>
            /\ DOMAIN task = {}
            /\ next_i = 0
            /\ futures = {}
            /\ completed_segments = 0
            /\ scratch = NoScratch
            /\ output_file = File(<<>>)
    /\ pc \in {"loop", "drain", "final", "assemble"} \/ result.state = "ok" =>
            total_segments > 0

\* run() failed on a secondary playlist without a URL line
C8_Witness ==
    /\ result.msg = "No video segments found in playlist"
    /\ HttpPositions(main_playlist) # {}
    /\ Len(secondary_content) > 0

C10_SleepIsExponential ==
    /\ dl.phase = "sleep" =>
            dl.sleep_ms = MillisPerSecond * Pow2(dl.attempt)
    /\ \A i \in DOMAIN task :
            task[i].phase = "sleep" =>
                task[i].sleep_ms = MillisPerSecond * Pow2(task[i].attempt)

\* C11 (as claimed): concatenate_files called on a directory where the blob
\* of some index of the work list is missing returns an error.
C11_MissingBlobFailsAssembly ==
    [][/\ pc = "assemble"
       /\ \E i \in 0..(total_segments - 1) : SegmentPath(i) \notin DOMAIN scratch
       => result'.state = "err"]_vars

\* the paths run() gives the indices of the work list
IndexPaths == {SegmentPath(i) : i \in 0..(total_segments - 1)}

\* C12: when concatenate_files is called the scratch directory holds, for
\* each index of the work list, one file, with the blob of that index, and
\* no other file; the work list does not change once the loop has begun.
C12_OneBlobPerIndexAtAssembly ==
    /\ [](pc = "assemble" =>
            /\ DOMAIN scratch = IndexPaths
            /\ Cardinality(DOMAIN scratch) = total_segments
            /\ \A i \in 0..(total_segments - 1) :
                    scratch[SegmentPath(i)] = Body(segment_urls[i + 1]))
    /\ [][(pc \in {"loop", "drain", "final", "assemble"}) =>
            segment_urls' = segment_urls]_vars

\* concatenate_files is called after more downloads than the concurrency
\* limit, finished out of index order
C12_Witness ==
    /\ pc = "assemble"
    /\ reordered
    /\ total_segments > ConcurrencyLimit

\* C13: once run() is over, however it ended, no scratch directory of the run
\* is left and no blob; blobs exist only in a directory that does.
C13_ScratchRemovedAtExit ==
    /\ pc = "exit" => temp_dir \in {"none", "removed"} /\ scratch = NoScratch
    /\ scratch # NoScratch => temp_dir = "live"
    /\ temp_dir = "live" => pc \notin {"start", "tempdir", "exit"}

\* run() failed in concatenate_files after blobs had been copied
C13_Witness ==
    /\ pc = "exit"
    /\ result.state = "err"
    /\ result.origin = "assembler"
    /\ result.cause.attempt > 0
    /\ temp_dir = "removed"

\* the place of a position of run() in the order of its source
PcRank(p) ==
    CASE p = "start" -> 0
      [] p = "tempdir" -> 1
      [] p = "main" -> 2
      [] p = "classify" -> 3
      [] p = "secondary" -> 4
      [] p = "extract" -> 5
      [] p \in {"loop", "drain"} -> 6
      [] p = "final" -> 7
      [] p = "assemble" -> 8
      [] p = "exit" -> 9

\* C14: while a playlist or a segment is fetched the output file exists and
\* is empty: it was made, or truncated, before the first request; playlists
\* are fetched only at the two places before the loop, each passed at most
\* once, main before secondary; a download is pushed only after them.
C14_OutputCreatedBeforeNetwork ==
    /\ [](PcRank(pc) \in 2..7 => output_file = File(<<>>))
    /\ [](dl.phase # "idle" => pc \in {"main", "secondary"})
    /\ [](next_i > 0 \/ futures # {} \/ InFlight # {} =>
            dl.phase = "idle" /\ PcRank(pc) >= 6)
    /\ [][PcRank(pc') >= PcRank(pc)]_vars
    /\ [][pc' = "secondary" /\ pc # "secondary" => pc = "classify"]_vars

\* the first download is about to be pushed, after a main and a secondary
\* playlist were fetched, over an output file that held bytes
C14_Witness ==
    /\ pc = "loop"
    /\ next_i = 0
    /\ secondary_content # main_playlist
    /\ output_file = File(<<>>)

\* C15: a run made again against the same playlists and segments, and that
\* succeeds, leaves the output file byte for byte as the first run left it,
\* whatever the order of completion in either run, over the output of the
\* first run as prior content.
C15_RerunGivesSameOutput ==
    run_no = 2 /\ result.state = "ok" => output_file = first_run.output

\* a second run succeeded, with downloads finished out of index order, over
\* the output of the first
C15_Witness ==
    /\ run_no = 2
    /\ result.state = "ok"
    /\ reordered
    /\ total_segments > 1
    /\ first_run.output.bytes # <<>>

\* C16: a retry loop never goes beyond attempt max_retries (max_retries + 1
\* attempts: 4 for a playlist, 13 for a segment); a fetch that got its
\* answer makes no other attempt; a fetch whose attempts all failed returns
\* the error of attempt max_retries, the last.
C16_AttemptsBoundedLastErrorWins ==
    /\ [](dl.attempt <= PlaylistRetries)
    /\ [](\A i \in DOMAIN task : task[i].attempt <= SegmentRetries)
    /\ [](result.state = "err" /\ result.cause.kind \in ErrorKinds =>
            result.cause.attempt =
                IF ResolverFailed THEN PlaylistRetries ELSE SegmentRetries)
    /\ [][\A i \in DOMAIN task :
            task[i].phase = "ok" =>
                task'[i].phase = "ok" /\ task'[i].attempt <= task[i].attempt]_vars
    /\ [][dl.phase = "send" /\ pc' \in {"classify", "extract"} =>
            dl' = IdleFrame]_vars

\* the fetch of a secondary playlist failed its 4 attempts
C16_Witness ==
    /\ SecondaryFailed
    /\ result.cause.kind \in ErrorKinds
    /\ result.cause.attempt = PlaylistRetries

\* the errors of the success arm: the body that cannot be read, the file
\* that cannot be written
IoKinds == IoFailures \cup {"Failed to read response body"}

\* C18: an error of reading the body, or of writing the blob, is never kept
\* as the error of a retryable attempt; it ends run() in the step it
\* happens, at the attempt it happens, with nothing left in flight.
C18_BodyFailureIsNotRetried ==
    /\ [](dl.last_error.kind \notin IoKinds)
    /\ [](\A i \in DOMAIN task : task[i].last_error.kind \notin IoKinds)
    /\ [](result.cause.kind \in IoKinds =>
            pc = "exit" /\ futures = {} /\ InFlight = {} /\ dl.phase = "idle")
    /\ [][result = Running /\ result'.cause.kind \in IoKinds =>
            \/ /\ dl.phase = "send"
               /\ result'.cause.attempt = dl.attempt
            \/ \E i \in futures :
                    /\ task[i].phase = "send"
                    /\ result'.cause.attempt = task[i].attempt
                    /\ task'[i].phase = "err"]_vars

\* a blob could not be written at a retry that had attempts left
C18_Witness ==
    /\ result.cause.kind = "Failed to write file"
    /\ result.cause.attempt > 0
    /\ result.cause.attempt < SegmentRetries

\* the steps a retry loop has made: two for each attempt it left behind, one
\* more while it sleeps
FrameSteps(f) == 2 * f.attempt + (IF f.phase = "sleep" THEN 1 ELSE 0)

\* some attempt, sleep or step of run() can return without an error
CanReturn ==
    \/ ENABLED Touch
    \/ ENABLED MakeTempDir
    \/ ENABLED (\E text \in Served(dl.url) : PlaylistOk(text))
    \/ ENABLED PlaylistWake
    \/ ENABLED Classify
    \/ ENABLED Extract
    \/ ENABLED Submit
    \/ ENABLED (\E i \in futures : SegmentOk(i) \/ SegmentWake(i))
    \/ ENABLED FinalDrained
    \/ pc = "assemble"    \* concatenate_files is a call that awaits nothing

\* the step does not take run() back: not to an earlier position and, at
\* its position, not to an earlier attempt, push or completion
NoStepBack ==
    /\ PcRank(pc') >= PcRank(pc)
    /\ PcRank(pc') = PcRank(pc) =>
            /\ segment_urls' = segment_urls \/ pc = "extract"
            /\ FrameSteps(dl') >= FrameSteps(dl)
            /\ next_i' >= next_i
            /\ completed_segments' >= completed_segments
            /\ \A i \in DOMAIN task :
                    FrameSteps(task'[i]) >= FrameSteps(task[i])

\* the step takes run() further: to a later position or, at its position,
\* to a later attempt, push or completion
StepAhead ==
    \/ PcRank(pc') > PcRank(pc)
    \/ FrameSteps(dl') > FrameSteps(dl)
    \/ next_i' > next_i
    \/ completed_segments' > completed_segments
    \/ \E i \in DOMAIN task : FrameSteps(task'[i]) > FrameSteps(task[i])

\* C19: every run ends: as long as run() has not returned, some attempt,
\* sleep or step of run() can return, and each one that does takes run()
\* further along a way that is bounded: the positions of run(), at most
\* max_retries + 1 attempts of each fetch, each segment of the work list
\* pushed once and yielded once; so when they all return in the end, run()
\* returns; it returns Ok only after every segment of the work list was
\* downloaded and concatenate_files was called with nothing in flight, and
\* an error otherwise.
C19_RunTerminates ==
    /\ [](pc # "exit" => CanReturn)
    /\ [][NoStepBack /\ StepAhead]_vars
    /\ [](/\ FrameSteps(dl) <= 2 * PlaylistRetries
          /\ \A i \in DOMAIN task : FrameSteps(task[i]) <= 2 * SegmentRetries
          /\ next_i <= total_segments
          /\ completed_segments <= next_i)
    /\ [](pc = "exit" => result.state \in {"ok", "err"})
    /\ [](pc = "assemble" \/ result.state = "ok" =>
            /\ completed_segments = total_segments
            /\ next_i = total_segments
            /\ futures = {})
    /\ [][result'.state = "ok" => pc = "assemble"]_vars

\* a run over more segments than the concurrency limit ended with Ok, its
\* downloads finished in index order
C19_Witness ==
    /\ pc = "exit"
    /\ result = Success
    /\ ~reordered
    /\ total_segments > ConcurrencyLimit

\* the downloads that returned Ok
Completed == {i \in DOMAIN task : task[i].phase = "ok"}

\* C20: completed_segments is the number of downloads that returned Ok; it
\* grows by one exactly in the steps where a download returns Ok and never
\* shrinks; it is at most the length of the work list, and equal to it when
\* run() returns Ok.
C20_CompletedCountIsExact ==
    /\ [](completed_segments = Cardinality(Completed))
    /\ [](completed_segments <= total_segments)
    /\ [](result.state = "ok" => completed_segments = total_segments)
    /\ [][(completed_segments' \in
            {completed_segments, completed_segments + 1})]_vars
    /\ [][completed_segments' = completed_segments + 1 <=>
            Completed' # Completed]_vars

\* the count after some downloads, with others in flight
C20_Witness ==
    /\ pc = "drain"
    /\ completed_segments > 0
    /\ Cardinality(InFlight) = ConcurrencyLimit

\* the index a file name stands for: its digits read as a decimal number
RECURSIVE StemIndex(_)
StemIndex(stem) ==
    IF stem = <<>> THEN 0
    ELSE 10 * StemIndex(SubSeq(stem, 1, Len(stem) - 1)) + stem[Len(stem)]

\* the paths of a directory by ascending index
RECURSIVE ByIndex(_)
ByIndex(paths) ==
    IF paths = {} THEN <<>>
    ELSE LET first == CHOOSE p \in paths :
                          \A q \in paths : StemIndex(p.stem) <= StemIndex(q.stem)
         IN <<first>> \o ByIndex(paths \ {first})

\* C17 (as claimed): the files sorted by name are the files sorted by index,
\* so that concatenate_files copies the blobs by ascending index, whatever
\* the length of the work list.
C17_LexOrderIsNumericOrder ==
    [][pc = "assemble" /\ result'.state = "ok" =>
        output_file'.bytes = CopyAll(ByIndex(TsEntries(scratch)), scratch)]_vars

====
